---- MODULE Spec2Model ----
(***************************************************************************)
(* SunKey: birth date/time/place -> UTC instant -> Sun's ecliptic          *)
(* longitude -> one of 64 Gene Keys.                                       *)
(*                                                                         *)
(* Angles are integers counting micro-degrees (1 degree = Deg units).      *)
(* Instants are integers counting minutes since 1970-01-01T00:00Z.         *)
(***************************************************************************)
EXTENDS Integers, Sequences, FiniteSets, Bags, TLC

VARIABLES
    GENE_KEY_WHEEL, \* mapToGeneKey.js: the module-level wheel array
    segments,       \* the array object built by the latest getAllGeneKeySegments()
    held,           \* which array object the caller of getAllGeneKeySegments holds
    wcall,          \* the latest call into mapToGeneKey.js and what it gave back
    hostTz,         \* the time zone the server process runs in (TZ)
    targ,           \* timezone.js: the arguments of the call under way
    tres,           \* timezone.js: what the latest call returned
    tprev,          \* timezone.js: the convertLocalToUTC call before the latest
    geocoding_cache,        \* the rows of the database table geocoding_cache
    sun_calculations_cache, \* the rows of the table sun_calculations_cache
    req,            \* the /api/sunkey requests being served, by slot
    geneKeysData,   \* routes/api.js: the object imported from data/genekeys.json
    sarg,           \* suncalc.js: the Date given and what the library answers
    sres,           \* suncalc.js: what the latest call returned
    birthPlaceInput,   \* script.js: the value of the #birth-place input
    query,             \* script.js: e.target.value of the latest input event
    citySearchTimeout, \* script.js: the timer citySearchTimeout refers to
    searches,          \* script.js: the /cities/search fetches not yet answered
    citySuggestions,   \* script.js: the #city-suggestions element
    blurTimers         \* script.js: the timers set on blur and not yet fired

wheelVars == <<GENE_KEY_WHEEL, segments, held, wcall>>
timeVars == <<hostTz, targ, tres, tprev>>
apiVars == <<geocoding_cache, sun_calculations_cache, req, geneKeysData>>
sunVars == <<sarg, sres>>
pageVars == <<birthPlaceInput, query, citySearchTimeout, searches,
              citySuggestions, blurTimers>>
vars == <<GENE_KEY_WHEEL, segments, held, wcall, hostTz, targ, tres, tprev,
          geocoding_cache, sun_calculations_cache, req, geneKeysData, sarg, sres,
          birthPlaceInput, query, citySearchTimeout, searches, citySuggestions,
          blurTimers>>

(***************************************************************************)
(* Bounds of the model                                                     *)
(***************************************************************************)
\* longitudes passed to mapLongitudeToGeneKey span -MaxTurns..MaxTurns full circles
MaxTurns == 2
\* how many elements a caller pops off an array it was handed
MaxPops == 1
\* how many years the dates given to convertLocalToUTC span, from 2023 on
MaxYears == 1
\* how many /api/sunkey requests the server handles at the same time
MaxRequests == 2
\* how many /cities/search fetches of the page are unanswered at the same time
MaxSearches == 2
\* how many timers set on blur are waiting at the same time
MaxBlurTimers == 1
\* how many rows the tables geocoding_cache and sun_calculations_cache take
MaxGeoRows == 1
MaxCalcRows == 2

(***************************************************************************)
(* Numbers                                                                 *)
(***************************************************************************)
Deg == 1000 * 1000

Abs(x) == IF x < 0 THEN -x ELSE x

\* JavaScript's % : the result takes the sign of the dividend (truncated
\* division), unlike TLA+'s %, whose result is never negative.
JsRem(a, b) == IF a >= 0 THEN a % b ELSE -((-a) % b)

\* The result of a floating-point operation is rounded to the nearest
\* representable number, ties to even. Representable numbers get sparser as
\* the magnitude grows: a double in [256, 512) has 2^-44 spacing while doubles
\* near 0 go down to 2^-1074. The model keeps that shape at its own scale:
\* below 256 degrees every unit is representable, from 256 degrees on only
\* every 4th unit is.
FpRound(x) ==
    IF Abs(x) < 256 * Deg THEN x
    ELSE LET q == x \div 4
             r == x % 4
         IN  IF r < 2 THEN 4 * q
             ELSE IF r > 2 THEN 4 * (q + 1)
             ELSE IF q % 2 = 0 THEN 4 * q ELSE 4 * (q + 1)

\* Number.prototype.toFixed(2): the decimal string with two fraction digits
\* nearest to x, the larger one on a tie. The string is kept as its count of
\* hundredths ("5.63" is 563).
toFixed2(x) ==
    IF x >= 0 THEN (x + (Deg \div 200)) \div (Deg \div 100)
    ELSE -(((-x) + (Deg \div 200)) \div (Deg \div 100))

\* Reading such a string back as a number (Number("5.63"), or the coercion a
\* comparison with a number applies).
NumberOfFixed2(s) == s * (Deg \div 100)

(***************************************************************************)
(* mapToGeneKey.js                                                         *)
(***************************************************************************)
WheelLiteral ==
    << 13, 49, 30, 55, 37, 63, 22, 36,
       25, 17, 21, 51, 42, 3, 27, 24,
       2, 23, 8, 20, 16, 35, 45, 12,
       15, 52, 39, 53, 62, 56, 31, 33,
       7, 4, 29, 59, 40, 64, 47, 6,
       46, 18, 48, 57, 32, 50, 28, 44,
       1, 43, 14, 34, 9, 5, 26, 11,
       10, 58, 38, 54, 61, 60, 41, 19 >>

\* const segmentSize = 360 / 64, i.e. 5.625, exact in binary
segmentSize == (360 * Deg) \div 64

\* let normalizedLongitude = longitude % 360;
\* if (normalizedLongitude < 0) normalizedLongitude += 360;
normalizedLongitude(longitude) ==
    LET r == JsRem(longitude, 360 * Deg)
    IN  IF r < 0 THEN FpRound(r + 360 * Deg) ELSE r

\* Math.floor(normalizedLongitude / segmentSize)
segmentIndex(longitude) == normalizedLongitude(longitude) \div segmentSize

\* arr[i] for a 0-based index: undefined outside the array
ArrayGet(arr, i) ==
    IF i >= 0 /\ i < Len(arr)
    THEN [undef |-> FALSE, val |-> arr[i + 1]]
    ELSE [undef |-> TRUE, val |-> 0]

mapLongitudeToGeneKey(wheel, longitude) ==
    ArrayGet(wheel, segmentIndex(longitude))

\* Array.prototype.indexOf: first 0-based position of v, or -1
indexOf(arr, v) ==
    IF \E i \in 1..Len(arr) : arr[i] = v
    THEN (CHOOSE i \in 1..Len(arr) :
             arr[i] = v /\ \A j \in 1..(i - 1) : arr[j] # v) - 1
    ELSE -1

\* the check left out: every index, -1 included, is turned into a range
rangeThrows_unchecked(index) == FALSE

\* the index check of getGeneKeyDegreeRange: throw new Error('Invalid Gene Key number')
rangeThrows(index) == index = -1

getGeneKeyDegreeRange(wheel, geneKeyNumber) ==
    LET index == indexOf(wheel, geneKeyNumber)
    IN  IF rangeThrows(index)
        THEN [threw |-> TRUE, start |-> 0, end |-> 0, geneKey |-> geneKeyNumber]
        ELSE [threw |-> FALSE,
              start |-> toFixed2(index * segmentSize),
              end |-> toFixed2((index + 1) * segmentSize),
              geneKey |-> geneKeyNumber]

\* the degrees formatted as getGeneKeyDegreeRange formats them
segmentOf_formatted(geneKey, index) ==
    [geneKey |-> geneKey,
     start |-> NumberOfFixed2(toFixed2(index * segmentSize)),
     end |-> NumberOfFixed2(toFixed2((index + 1) * segmentSize)),
     index |-> index]

\* one element of the array getAllGeneKeySegments builds (index is 0-based)
segmentOf(geneKey, index) ==
    [geneKey |-> geneKey,
     start |-> index * segmentSize,
     end |-> (index + 1) * segmentSize,
     index |-> index]

getAllGeneKeySegments(wheel) ==
    [i \in 1..Len(wheel) |-> segmentOf(wheel[i], i - 1)]

\* the wheel itself handed out (return GENE_KEY_WHEEL)
mapResultObject_wheel == "wheel"

\* GENE_KEY_WHEEL.map(...) allocates a new array: the caller is handed that
\* array, not the wheel.
mapResultObject == "segments"

(***************************************************************************)
(* Calls into mapToGeneKey.js and what a caller can do with the results    *)
(***************************************************************************)
NoCall == [fn |-> "none", arg |-> 0, undef |-> FALSE, threw |-> FALSE,
           key |-> 0, start |-> 0, end |-> 0]

\* offsets from a segment boundary; from 256 degrees on a double has no finer
\* spacing than 4 units, so every offset is a multiple of 4
BoundaryOffsets == {0, 4000, segmentSize - 4}

\* every segment of the circle at every boundary offset, a few of them again
\* in the other turns, and the values the specification names
Longitudes ==
    { s * segmentSize + o : s \in 0..63, o \in BoundaryOffsets }
    \cup { t * 360 * Deg + s * segmentSize + o :
               t \in (-MaxTurns)..(MaxTurns - 1), s \in {0, 1, 62, 63},
               o \in {0, 4, segmentSize - 4} }
    \cup { -10 * Deg, 350 * Deg, 359990000, -1, 1, -3, MaxTurns * 360 * Deg }

GeneKeyNumbers == (-1)..66

CallMap(longitude) ==
    LET k == mapLongitudeToGeneKey(GENE_KEY_WHEEL, longitude)
    IN  /\ wcall' = [NoCall EXCEPT !.fn = "mapLongitudeToGeneKey",
                                   !.arg = longitude,
                                   !.undef = k.undef, !.key = k.val]
        /\ UNCHANGED <<GENE_KEY_WHEEL, segments, held>>
        /\ UNCHANGED <<timeVars, apiVars, sunVars, pageVars>>

CallRange(geneKeyNumber) ==
    LET r == getGeneKeyDegreeRange(GENE_KEY_WHEEL, geneKeyNumber)
    IN  /\ wcall' = [NoCall EXCEPT !.fn = "getGeneKeyDegreeRange",
                                   !.arg = geneKeyNumber,
                                   !.threw = r.threw, !.key = r.geneKey,
                                   !.start = r.start, !.end = r.end]
        /\ UNCHANGED <<GENE_KEY_WHEEL, segments, held>>
        /\ UNCHANGED <<timeVars, apiVars, sunVars, pageVars>>

CallSegments ==
    /\ held' = mapResultObject
    /\ segments' = IF held' = "segments"
                   THEN getAllGeneKeySegments(GENE_KEY_WHEEL)
                   ELSE segments
    /\ wcall' = [NoCall EXCEPT !.fn = "getAllGeneKeySegments"]
    /\ UNCHANGED GENE_KEY_WHEEL
    /\ UNCHANGED <<timeVars, apiVars, sunVars, pageVars>>

\* the caller writes a field of one of the objects it was handed:
\*   result[i].geneKey = v
CallerSetsGeneKey(i, v) ==
    /\ held = "segments"
    /\ i \in 1..Len(segments)
    /\ segments' = [segments EXCEPT ![i].geneKey = v]
    /\ wcall' = [NoCall EXCEPT !.fn = "callerWrite"]
    /\ UNCHANGED <<GENE_KEY_WHEEL, held>>
    /\ UNCHANGED <<timeVars, apiVars, sunVars, pageVars>>

\* the caller shortens the array it was handed: result.pop()
CallerPops ==
    /\ held # "none"
    /\ IF held = "segments"
       THEN /\ Len(segments) > 64 - MaxPops
            /\ segments' = SubSeq(segments, 1, Len(segments) - 1)
            /\ UNCHANGED GENE_KEY_WHEEL
       ELSE /\ Len(GENE_KEY_WHEEL) > 64 - MaxPops
            /\ GENE_KEY_WHEEL' = SubSeq(GENE_KEY_WHEEL, 1, Len(GENE_KEY_WHEEL) - 1)
            /\ UNCHANGED segments
    /\ wcall' = [NoCall EXCEPT !.fn = "callerWrite"]
    /\ UNCHANGED held
    /\ UNCHANGED <<timeVars, apiVars, sunVars, pageVars>>

WheelIdle ==
    /\ GENE_KEY_WHEEL = WheelLiteral
    /\ segments = <<>>
    /\ held = "none"
    /\ wcall = NoCall

NextWheel ==
    \/ \E longitude \in Longitudes : CallMap(longitude)
    \/ \E n \in GeneKeyNumbers : CallRange(n)
    \/ CallSegments
    \/ \E i \in {1}, v \in {0} : CallerSetsGeneKey(i, v)
    \/ CallerPops

(***************************************************************************)
(* Date: the calendar arithmetic of ECMAScript, in minutes                 *)
(***************************************************************************)
MinutesPerDay == 24 * 60

\* Number(x) of something that is no number, and a missing array element:
\* !x and isNaN(x) are true of it and every comparison with it is false
NaN == -1000000

Day(t) == t \div MinutesPerDay
TimeWithinDay(t) == t % MinutesPerDay

InLeapYear(y) == (y % 4 = 0 /\ y % 100 # 0) \/ y % 400 = 0

DayFromYear(y) ==
    365 * (y - 1970) + ((y - 1969) \div 4) - ((y - 1901) \div 100)
        + ((y - 1601) \div 400)

DaysInMonth(y, m0) ==
    IF m0 = 1 THEN (IF InLeapYear(y) THEN 29 ELSE 28)
    ELSE IF m0 \in {3, 5, 8, 10} THEN 30 ELSE 31

\* days of year y before month m0 (0 = January)
MonthStart(y, m0) ==
    << 0, 31, 59, 90, 120, 151, 181, 212, 243, 273, 304, 334 >>[m0 + 1]
        + (IF m0 >= 2 /\ InLeapYear(y) THEN 1 ELSE 0)

\* MakeDay: month and date may lie outside their ranges and roll over
MakeDay(year, month0, date) ==
    LET ym == year + (month0 \div 12)
        mn == month0 % 12
    IN  DayFromYear(ym) + MonthStart(ym, mn) + date - 1

MakeTime(hours, minutes) == hours * 60 + minutes

MakeDate(day, time) == day * MinutesPerDay + time

YearFromTime(t) ==
    LET d == Day(t)
        guess == 1970 + (d \div 365)
    IN  CHOOSE y \in (guess - 1)..(guess + 1) :
            DayFromYear(y) <= d /\ d < DayFromYear(y + 1)

DayWithinYear(t) == Day(t) - DayFromYear(YearFromTime(t))

MonthFromTime(t) ==
    LET y == YearFromTime(t)
        d == Day(t) - DayFromYear(y)
    IN  CHOOSE m0 \in 0..11 :
            /\ MonthStart(y, m0) <= d
            /\ d < MonthStart(y, m0) + DaysInMonth(y, m0)

DateFromTime(t) ==
    LET y == YearFromTime(t)
    IN  Day(t) - DayFromYear(y) - MonthStart(y, MonthFromTime(t)) + 1

HourFromTime(t) == TimeWithinDay(t) \div 60
MinFromTime(t) == TimeWithinDay(t) % 60

\* 0 = Sunday; 1970-01-01 was a Thursday
WeekDay(day) == (day + 4) % 7

\* years 0..99 given to Date.UTC or new Date(y, m, ...) mean 1900..1999
FullYear(year) == IF year >= 0 /\ year <= 99 THEN 1900 + year ELSE year

\* Date.UTC(year, month0, day, hours, minutes, 0)
DateUTC(year, month0, day, hours, minutes) ==
    MakeDate(MakeDay(FullYear(year), month0, day), MakeTime(hours, minutes))

(***************************************************************************)
(* Time zones: what Intl and the host's local time know. Each zone has a   *)
(* standard offset, a daylight offset and a rule for the daylight period   *)
(* (the rules in force since 2007).                                        *)
(***************************************************************************)
ZoneTable ==
    [zone \in {"UTC", "America/New_York", "Europe/Paris", "Asia/Tokyo"} |->
        CASE zone = "UTC" -> [std |-> 0, dst |-> 0, rule |-> "none"]
          [] zone = "America/New_York" -> [std |-> -300, dst |-> -240, rule |-> "US"]
          [] zone = "Europe/Paris" -> [std |-> 60, dst |-> 120, rule |-> "EU"]
          [] zone = "Asia/Tokyo" -> [std |-> 540, dst |-> 540, rule |-> "none"]]

Zones == DOMAIN ZoneTable

\* the day number of the n-th Sunday of month m0 of year y
NthSunday(y, m0, n) ==
    LET first == MakeDay(y, m0, 1)
    IN  first + ((7 - WeekDay(first)) % 7) + 7 * (n - 1)

\* the day number of the last Sunday of month m0 of year y
LastSunday(y, m0) ==
    LET last == MakeDay(y, m0, DaysInMonth(y, m0))
    IN  last - WeekDay(last)

\* the instant daylight time starts in year y
DstStart(zone, y) ==
    IF ZoneTable[zone].rule = "US"
    THEN MakeDate(NthSunday(y, 2, 2), 120) - ZoneTable[zone].std
    ELSE MakeDate(LastSunday(y, 2), 60)

\* the instant daylight time ends in year y
DstEnd(zone, y) ==
    IF ZoneTable[zone].rule = "US"
    THEN MakeDate(NthSunday(y, 10, 1), 120) - ZoneTable[zone].dst
    ELSE MakeDate(LastSunday(y, 9), 60)

\* the zone's offset from UTC, in minutes, in force at instant t
Offset(zone, t) ==
    IF ZoneTable[zone].rule = "none" THEN ZoneTable[zone].std
    ELSE LET y == YearFromTime(t)
         IN  IF DstStart(zone, y) <= t /\ t < DstEnd(zone, y)
             THEN ZoneTable[zone].dst
             ELSE ZoneTable[zone].std

\* LocalTime(t): the wall clock of zone at instant t, as a minute count
LocalTime(zone, t) == t + Offset(zone, t)

\* UTC(t): the instant of a wall clock reading of zone. A reading that occurs
\* twice is the earlier instant; one that never occurs is read with the
\* offset in force before the transition.
UTCOfLocal(zone, local) ==
    IF Offset(zone, local - ZoneTable[zone].dst) = ZoneTable[zone].dst
    THEN local - ZoneTable[zone].dst
    ELSE local - ZoneTable[zone].std

\* new Date(year, month0, day, hours, minutes) in a process running in host
DateLocal(host, year, month0, day, hours, minutes) ==
    UTCOfLocal(host, DateUTC(year, month0, day, hours, minutes))

\* date.getMonth() in a process running in host
getMonth(host, t) == MonthFromTime(LocalTime(host, t))

\* date.toLocaleString('en-US', { timeZone }): "M/D/YYYY, h:mm:ss AM|PM"
toLocaleString(t, timeZone) ==
    LET l == LocalTime(timeZone, t)
        h == HourFromTime(l)
    IN  [month |-> MonthFromTime(l) + 1,
         day |-> DateFromTime(l),
         year |-> YearFromTime(l),
         hour |-> IF h % 12 = 0 THEN 12 ELSE h % 12,
         minute |-> MinFromTime(l),
         second |-> 0,
         pm |-> h >= 12]

\* new Date(string) of such a string: no zone is written in it, so it is read
\* as a wall clock reading of the host's zone
DateParse(host, str) ==
    LET h == (str.hour % 12) + (IF str.pm THEN 12 ELSE 0)
    IN  UTCOfLocal(host,
            MakeDate(MakeDay(str.year, str.month - 1, str.day),
                     MakeTime(h, str.minute)))

(***************************************************************************)
(* timezone.js                                                             *)
(***************************************************************************)
\* localAsUTC.getTime() - localInTzDate.getTime()
offsetOf(localAsUTC, localInTzDate) == localAsUTC - localInTzDate

\* lines 5-26 of the function build values the result does not use
convertLocalToUTC(host, year, month, day, hours, minutes, timezone) ==
    LET localAsUTC == DateUTC(year, month - 1, day, hours, minutes)
        localInTzAsString == toLocaleString(localAsUTC, timezone)
        localInTzDate == DateParse(host, localInTzAsString)
        offset == offsetOf(localAsUTC, localInTzDate)
        utcDateTime == localAsUTC - offset
    IN  utcDateTime

\* !x of a number
Falsy(x) == x = NaN \/ x = 0

\* the round trip through Date left out
monthRolledOver_unchecked(host, testDate, month) == FALSE

\* testDate.getMonth() !== month - 1
monthRolledOver(host, testDate, month) == getMonth(host, testDate) # month - 1

validateDateTime(host, year, month, day, hours, minutes) ==
    IF Falsy(year) \/ Falsy(month) \/ Falsy(day) \/ hours = NaN \/ minutes = NaN
    THEN [valid |-> FALSE, error |-> "Invalid date or time format"]
    ELSE IF month < 1 \/ month > 12
    THEN [valid |-> FALSE, error |-> "Month must be between 1 and 12"]
    ELSE IF day < 1 \/ day > 31
    THEN [valid |-> FALSE, error |-> "Day must be between 1 and 31"]
    ELSE IF hours < 0 \/ hours > 23
    THEN [valid |-> FALSE, error |-> "Hour must be between 0 and 23"]
    ELSE IF minutes < 0 \/ minutes > 59
    THEN [valid |-> FALSE, error |-> "Minute must be between 0 and 59"]
    ELSE LET testDate == DateLocal(host, year, month - 1, day, hours, minutes)
         IN  IF monthRolledOver(host, testDate, month)
             THEN [valid |-> FALSE, error |-> "Invalid day for the given month"]
             ELSE [valid |-> TRUE, error |-> ""]

(***************************************************************************)
(* Calls into timezone.js                                                  *)
(***************************************************************************)
NoResult == [fn |-> "none", valid |-> FALSE, error |-> "", utc |-> 0]
NoPrev == [called |-> FALSE, year |-> 0, month |-> 0, day |-> 0, utc |-> 0]

HostZones == {"UTC", "America/New_York", "Europe/Paris"}

\* the components validateDateTime is tried on: in range, just out of range,
\* and days the month may or may not have
ValidateArgs ==
    [year : {2023, 2024, 2100}, month : {0, 1, 2, 4, 12, 13},
     day : {0, 1, 28, 29, 30, 31, 32}, hours : {-1, 0, 23, 24},
     minutes : {-1, 0, 59, 60}, timezone : {"UTC"}]
    \cup [year : {2023, NaN}, month : {2, NaN}, day : {28, NaN},
          hours : {12, NaN}, minutes : {0, NaN}, timezone : {"UTC"}]

\* real dates: winter, summer, and the days the clocks change in the zones
\* (2023-03-12 and 2023-11-05 in New York, 2023-03-26 and 2023-10-29 in Paris)
CivilDates ==
    { <<2023 + k, 1, 15>> : k \in 0..(MaxYears - 1) }
    \cup { <<2023 + k, 7, 15>> : k \in 0..(MaxYears - 1) }
    \cup { <<2023, 3, 12>>, <<2023, 11, 5>>, <<2023, 3, 26>>, <<2023, 10, 29>>,
           <<2023, 12, 31>> }

CivilTimes == { <<0, 30>>, <<1, 30>>, <<2, 30>>, <<12, 0>>, <<21, 15>>, <<23, 59>> }

ConvertArgs ==
    { [year |-> d[1], month |-> d[2], day |-> d[3],
       hours |-> c[1], minutes |-> c[2], timezone |-> z] :
          d \in CivilDates, c \in CivilTimes, z \in Zones }

CallValidate ==
    /\ tres.fn = "none"
    /\ LET v == validateDateTime(hostTz, targ.year, targ.month, targ.day,
                                 targ.hours, targ.minutes)
       IN  tres' = [NoResult EXCEPT !.fn = "validateDateTime",
                                    !.valid = v.valid, !.error = v.error]
    /\ UNCHANGED <<hostTz, targ, tprev>>
    /\ UNCHANGED <<wheelVars, apiVars, sunVars, pageVars>>

ConvertResult(a) ==
    [NoResult EXCEPT !.fn = "convertLocalToUTC",
                     !.utc = convertLocalToUTC(hostTz, a.year, a.month, a.day,
                                               a.hours, a.minutes, a.timezone)]

CallConvert ==
    /\ tres.fn = "none"
    /\ targ \in ConvertArgs
    /\ tres' = ConvertResult(targ)
    /\ UNCHANGED <<hostTz, targ, tprev>>
    /\ UNCHANGED <<wheelVars, apiVars, sunVars, pageVars>>

\* a second conversion, of another date with the same time of day and zone
CallConvertAgain(d) ==
    /\ tres.fn = "convertLocalToUTC"
    /\ ~tprev.called
    /\ tprev' = [called |-> TRUE, year |-> targ.year, month |-> targ.month,
                 day |-> targ.day, utc |-> tres.utc]
    /\ targ' = [targ EXCEPT !.year = d[1], !.month = d[2], !.day = d[3]]
    /\ tres' = ConvertResult(targ')
    /\ UNCHANGED hostTz
    /\ UNCHANGED <<wheelVars, apiVars, sunVars, pageVars>>

TimeIdle ==
    /\ hostTz = "UTC"
    /\ targ = [year |-> 2023, month |-> 1, day |-> 15, hours |-> 12,
               minutes |-> 0, timezone |-> "UTC"]
    /\ tres = NoResult
    /\ tprev = NoPrev

InitTime ==
    /\ hostTz \in HostZones
    /\ targ \in ValidateArgs \cup ConvertArgs
    /\ tres = NoResult
    /\ tprev = NoPrev

NextTime ==
    \/ CallValidate
    \/ CallConvert
    \/ \E d \in CivilDates : CallConvertAgain(d)

(***************************************************************************)
(* suncalc.js                                                              *)
(***************************************************************************)
\* A longitude as suncalc.js handles it has more decimals than the wheel
\* needs: u counts micro-degrees and d78 holds the 7th and 8th decimal.
Num(u, d78) == [u |-> u, d78 |-> d78]

\* the instant 2000-01-01T12:00Z (J2000.0), in minutes
J2000 == DateUTC(2000, 0, 1, 12, 0)

\* Astronomy.Ecliptic(utcDate).elon: the library's longitude of the Sun, a
\* fixed function of the instant. The model takes the Sun's mean longitude,
\* 280.460 + 0.9856474 degrees per day since J2000.0, and digits beyond the
\* sixth decimal that vary with the instant.
EclipticElon(t) ==
    LET n == (t - J2000) \div MinutesPerDay
        m == (t - J2000) % MinutesPerDay
        u == 280460000 + 985647 * (n % 365) - 238845 * (n \div 365)
                 + (m * 985647) \div MinutesPerDay
    IN  Num(u % (360 * Deg), (7 * m + 3 * n) % 100)

\* let longitude = ecliptic.elon; if (longitude < 0) longitude += 360;
\* the sum is a floating-point sum
calculateSunLongitudeOf(elon) ==
    IF elon.u < 0
    THEN Num(FpRound(elon.u + 360 * Deg), elon.d78)
    ELSE elon

calculateSunLongitude(utcDate) == calculateSunLongitudeOf(EclipticElon(utcDate))

signs ==
    << "Aries", "Taurus", "Gemini", "Cancer", "Leo", "Virgo", "Libra",
       "Scorpio", "Sagittarius", "Capricorn", "Aquarius", "Pisces" >>

\* signs[Math.floor(longitude / 30)]; "undefined" outside the list
getZodiacSign(longitude) ==
    LET index == longitude.u \div (30 * Deg)
    IN  IF index >= 0 /\ index < Len(signs) THEN signs[index + 1] ELSE "undefined"

\* x.toFixed(7) of a longitude: the string, kept as micro-degrees and the one
\* decimal after them; the 8th decimal is rounded away, a tie upwards
toFixed7(x) ==
    LET up == (x.d78 + 5) \div 10
    IN  IF up = 10 THEN [u |-> x.u + 1, d7 |-> 0] ELSE [u |-> x.u, d7 |-> up]

\* parseFloat of a string with 7 decimals
parseFloat7(s) == Num(s.u, 10 * s.d7)

\* parseFloat(x.toFixed(4)) of a longitude: rounded to 4 decimals. A tie (the
\* digits after the 4th being exactly 50) goes upwards.
roundTo4(x) == Num(100 * ((x.u + 50) \div 100), 0)

(***************************************************************************)
(* suncalc.js, the earlier version: the Sun's mean longitude and the       *)
(* equation of centre, from the Julian Day of the Date's local fields      *)
(***************************************************************************)
\* the day number of getJulianDayNumber, from getFullYear(), getMonth() + 1
\* and getDate()
julianDay(year, month, date) ==
    LET a == (14 - month) \div 12
        y == year + 4800 - a
        m == month + 12 * a - 3
    IN  date + ((153 * m + 2) \div 5) + 365 * y
            + (y \div 4) - (y \div 100) + (y \div 400) - 32045

\* getJulianDayNumber of a Date whose local fields are those of the minute
\* count l: the day number and the fraction (hours - 12) / 24, in minutes
julianDayOfFields(l) ==
    [day |-> julianDay(YearFromTime(l), MonthFromTime(l) + 1, DateFromTime(l)),
     min |-> HourFromTime(l) * 60 + MinFromTime(l) - 12 * 60]

\* getJulianDayNumber: getFullYear, getMonth, getDate, getHours and
\* getMinutes are the fields of the Date in the host's zone
getJulianDayNumber(host, date) == julianDayOfFields(LocalTime(host, date))

\* base + rate * n for n days given in minutes, in micro-degrees; rate is
\* micro-degrees per day. Whole turns are dropped year by year, which leaves
\* the angle the same modulo 360.
MeanAngle(base, rate, minutes) ==
    base + rate * ((minutes \div MinutesPerDay) % 365)
         + (rate * 365 - 360 * Deg) * ((minutes \div MinutesPerDay) \div 365)
         + (((minutes % MinutesPerDay) * rate) \div MinutesPerDay)

\* if (x < 0) x += 360
addTurnIfNegative(x) == IF x < 0 THEN FpRound(x + 360 * Deg) ELSE x

\* x = x % 360; if (x < 0) x += 360
foldToCircle(x) == addTurnIfNegative(JsRem(x, 360 * Deg))

\* Bhaskara's rational approximation of the sine of h hundredths of a
\* degree, 0 <= h <= 18000, in thousandths (within 0.002 of the sine)
SinOfHalfTurn(h) ==
    LET p == (h * (18000 - h)) \div 1000
    IN  (4000 * p) \div (405000 - p)

\* Math.sin of an angle of [0, 360) degrees, in thousandths
SinMilli(angle) ==
    IF angle < 180 * Deg
    THEN SinOfHalfTurn(angle \div 10000)
    ELSE -SinOfHalfTurn((angle - 180 * Deg) \div 10000)

\* lambda = L + 1.915 sin g + 0.020 sin 2g, folded into the circle
eclipticLongitude(L, g) ==
    foldToCircle(L + 1915 * SinMilli(g) + 20 * SinMilli((2 * g) % (360 * Deg)))

\* the longitude for n = jd - 2451545.0 days, n given in minutes
sunLongitudeAt(n) ==
    eclipticLongitude(foldToCircle(MeanAngle(280460000, 985647, n)),
                      foldToCircle(MeanAngle(357528000, 985600, n)))

minutesSinceJ2000(jd) == (jd.day - 2451545) * MinutesPerDay + jd.min

calculateSunLongitude_low(host, date) ==
    Num(sunLongitudeAt(minutesSinceJ2000(getJulianDayNumber(host, date))), 0)

(***************************************************************************)
(* Calls into suncalc.js                                                   *)
(***************************************************************************)
NoSunResult == [fn |-> "none", longitude |-> Num(0, 0), jd |-> [day |-> 0, min |-> 0],
                sign |-> ""]

\* instants given as the Date: J2000.0, and times of day at which the civil
\* date differs between zones
SunInstants ==
    { DateUTC(2000, 0, 1, 12, 0), DateUTC(2023, 0, 15, 12, 0),
      DateUTC(2023, 0, 15, 23, 30), DateUTC(2023, 0, 16, 2, 0),
      DateUTC(2023, 6, 15, 12, 0), DateUTC(2023, 2, 20, 21, 0),
      DateUTC(2023, 11, 31, 23, 59), DateUTC(1999, 11, 31, 23, 0) }

\* what ecliptic.elon may be: angles of the circle, the ends of it, and
\* values on either side of it (-1 is a negative number next to zero)
EclipticElons ==
    { Num(u, 0) : u \in { 0, 1, 30 * Deg - 1, 30 * Deg, 280800000, 359990000,
                          360 * Deg - 4, -1, -10 * Deg, -350 * Deg, -370 * Deg,
                          360 * Deg, 365 * Deg } }

\* calculateSunLongitude of utils/suncalc.js, the library answering sarg.elon
CallSun ==
    /\ sres.fn = "none"
    /\ sres' = [NoSunResult EXCEPT !.fn = "calculateSunLongitude",
                    !.longitude = calculateSunLongitudeOf(sarg.elon)]
    /\ UNCHANGED sarg
    /\ UNCHANGED <<wheelVars, timeVars, apiVars, pageVars>>

\* calculateSunLongitude of the earlier suncalc.js on the Date sarg.date, in
\* a process running in sarg.host
CallSunLow ==
    /\ sres.fn = "none"
    /\ sres' = [NoSunResult EXCEPT !.fn = "calculateSunLongitude_low",
                    !.jd = getJulianDayNumber(sarg.host, sarg.date),
                    !.longitude = calculateSunLongitude_low(sarg.host, sarg.date)]
    /\ UNCHANGED sarg
    /\ UNCHANGED <<wheelVars, timeVars, apiVars, pageVars>>

\* getZodiacSign of the longitude calculateSunLongitude returned
CallZodiac ==
    /\ sres.fn \in {"calculateSunLongitude", "calculateSunLongitude_low"}
    /\ sres' = [sres EXCEPT !.fn = "getZodiacSign",
                            !.sign = getZodiacSign(sres.longitude)]
    /\ UNCHANGED sarg
    /\ UNCHANGED <<wheelVars, timeVars, apiVars, pageVars>>

SunIdle ==
    /\ sarg = [host |-> "UTC", date |-> 0, elon |-> Num(0, 0)]
    /\ sres = NoSunResult

InitSun ==
    /\ \E host \in HostZones, date \in SunInstants, elon \in EclipticElons :
          sarg = [host |-> host, date |-> date, elon |-> elon]
    /\ sres = NoSunResult

NextSun ==
    \/ CallSun
    \/ CallSunLow
    \/ CallZodiac

(***************************************************************************)
(* geocoding.js and the data files                                         *)
(***************************************************************************)
\* a latitude or longitude: e7 counts 1e-7 degrees, d8 is the 8th decimal of
\* its magnitude
Coord(e7, d8) == [e7 |-> e7, d8 |-> d8]

\* the coordinate left out of the key
coordToFixed7_dropped(c) == 0

\* coordinate.toFixed(7), kept as the count of 1e-7 degrees
coordToFixed7(c) ==
    IF c.d8 >= 5 THEN (IF c.e7 < 0 THEN c.e7 - 1 ELSE c.e7 + 1) ELSE c.e7

\* parseFloat of such a string
coordParse(s) == Coord(s, 0)

\* data/cities.json
citiesData ==
    << [city |-> "New York", country |-> "USA", lat |-> Coord(407128000, 0),
        lng |-> Coord(-740060000, 0), timezone |-> "America/New_York"],
       [city |-> "Miami", country |-> "USA", lat |-> Coord(257617000, 0),
        lng |-> Coord(-801918000, 0), timezone |-> "America/New_York"],
       [city |-> "Paris", country |-> "France", lat |-> Coord(488566000, 0),
        lng |-> Coord(23522000, 0), timezone |-> "Europe/Paris"] >>

\* the place texts requests carry ("" is a missing place), with
\* locationInput.trim().toLowerCase() of each
Places == {"York", "Boston", "Paris"}

normalizedInput(place) ==
    CASE place = "Miami" -> "miami"
      [] place = "York" -> "york"
      [] place = "Boston" -> "boston"
      [] place = "Paris" -> "paris"
      [] OTHER -> "atlantis"

\* citiesData.find(...) on the city, "city, country" or "city country":
\* the 1-based position of the match, 0 for none
localMatch(normalized) ==
    CASE normalized = "new york" -> 1
      [] normalized = "miami" -> 2
      [] normalized = "paris" -> 3
      [] OTHER -> 0

\* citiesData.find(...) on either name containing the other
fuzzyMatch(normalized) ==
    CASE normalized \in {"new york", "york"} -> 1
      [] normalized = "miami" -> 2
      [] normalized = "paris" -> 3
      [] OTHER -> 0

\* what the OpenStreetMap geocoder and geo-tz can answer for a place the
\* city list does not have; an empty set when the place is unknown to them
geocoderResults(place) ==
    IF place = "Boston"
    THEN { [city |-> "Boston", country |-> "United States",
            latitude |-> Coord(423602534, 5), longitude |-> Coord(-710582912, 3),
            timezone |-> "America/New_York", source |-> "geocoder"] }
    ELSE {}

NoLocation ==
    [city |-> "", country |-> "", latitude |-> Coord(0, 0),
     longitude |-> Coord(0, 0), timezone |-> "UTC", source |-> ""]

cityLocation(i, source) ==
    [city |-> citiesData[i].city, country |-> citiesData[i].country,
     latitude |-> citiesData[i].lat, longitude |-> citiesData[i].lng,
     timezone |-> citiesData[i].timezone, source |-> source]

\* the row cacheGeocodingResult inserts
geocodingRow(locationInput, result) ==
    [location_input |-> locationInput, city |-> result.city,
     country |-> result.country, latitude |-> result.latitude,
     longitude |-> result.longitude, timezone |-> result.timezone]

\* .select('*')....maybeSingle() over the rows the .eq() filters keep: the
\* row when exactly one row matches, and data: null when none does or
\* several do
maybeSingle(table, rows) ==
    IF Cardinality(rows) = 1 /\ \A row \in rows : CopiesIn(row, table) = 1
    THEN [found |-> TRUE, rows |-> rows]
    ELSE [found |-> FALSE, rows |-> {}]

TheRow(single) == CHOOSE row \in single.rows : TRUE

\* data/genekeys.json as the repository ships it: one record per Gene Key
\* number
GeneKeysJson ==
    [k \in 1..64 |-> [shadow |-> <<"shadow", k>>, gift |-> <<"gift", k>>,
                      siddhi |-> <<"siddhi", k>>]]

(***************************************************************************)
(* routes/api.js: GET /api/sunkey with geocoding and the two cache tables  *)
(***************************************************************************)
NoCalc ==
    [utcDateTime |-> 0, sunLongitude |-> Num(0, 0), geneKeyNumber |-> 0,
     zodiacSign |-> ""]

NoResponse ==
    [status |-> 0, error |-> "", message |-> "",
     date |-> <<0, 0, 0>>, time |-> <<0, 0>>, place |-> <<"", "">>,
     birthTimezone |-> "", city |-> "", country |-> "",
     latitude |-> Coord(0, 0), longitude |-> Coord(0, 0), timezone |-> "",
     source |-> "", sunLongitude |-> Num(0, 0), zodiacSign |-> "",
     geneKey |-> 0, shadow |-> <<"", 0>>, gift |-> <<"", 0>>,
     siddhi |-> <<"", 0>>, accuracy |-> "", utcDateTime |-> 0,
     segments |-> <<>>]

NoQuery ==
    [hasDate |-> FALSE, hasTime |-> FALSE, year |-> 0, month |-> 0, day |-> 0,
     hours |-> 0, minutes |-> 0, place |-> ""]

NoRequest ==
    [pc |-> "idle", q |-> NoQuery, location |-> NoLocation, calc |-> NoCalc,
     resp |-> NoResponse]

ErrorResponse(status, error, message) ==
    [NoResponse EXCEPT !.status = status, !.error = error, !.message = message]

\* the key of a row of sun_calculations_cache, as the handler's .eq() filters
\* and its insert write it
calcKey(q, location) ==
    [date |-> <<q.year, q.month, q.day>>, time |-> <<q.hours, q.minutes>>,
     latitude |-> coordToFixed7(location.latitude),
     longitude |-> coordToFixed7(location.longitude)]

rowKey(row) ==
    [date |-> row.date, time |-> row.time, latitude |-> row.latitude,
     longitude |-> row.longitude]

\* the row the handler inserts after a fresh computation
calcRow(q, location, calc) ==
    [date |-> <<q.year, q.month, q.day>>, time |-> <<q.hours, q.minutes>>,
     latitude |-> coordToFixed7(location.latitude),
     longitude |-> coordToFixed7(location.longitude),
     timezone |-> location.timezone,
     utc_datetime |-> calc.utcDateTime,
     sun_longitude |-> toFixed7(calc.sunLongitude),
     zodiac_sign |-> calc.zodiacSign,
     gene_key |-> calc.geneKeyNumber]

\* sunLongitude of a freshly computed response: parseFloat(x.toFixed(4))
freshSunLongitude(x) == roundTo4(x)

\* res.json(...) of the cache-hit branch
cachedResponse(q, location, cachedCalc) ==
    [NoResponse EXCEPT
        !.status = 200,
        !.date = <<q.year, q.month, q.day>>, !.time = <<q.hours, q.minutes>>,
        !.place = <<location.city, location.country>>,
        !.birthTimezone = location.timezone,
        !.city = location.city, !.country = location.country,
        !.latitude = coordParse(cachedCalc.latitude),
        !.longitude = coordParse(cachedCalc.longitude),
        !.timezone = cachedCalc.timezone,
        !.source = "cache",
        !.sunLongitude = parseFloat7(cachedCalc.sun_longitude),
        !.zodiacSign = cachedCalc.zodiac_sign,
        !.geneKey = cachedCalc.gene_key,
        !.shadow = geneKeysData[cachedCalc.gene_key].shadow,
        !.gift = geneKeysData[cachedCalc.gene_key].gift,
        !.siddhi = geneKeysData[cachedCalc.gene_key].siddhi,
        !.accuracy = "High precision (VSOP87, cached)",
        !.utcDateTime = cachedCalc.utc_datetime]

\* res.json(...) after a fresh computation
freshResponse(q, location, calc) ==
    [NoResponse EXCEPT
        !.status = 200,
        !.date = <<q.year, q.month, q.day>>, !.time = <<q.hours, q.minutes>>,
        !.place = <<location.city, location.country>>,
        !.birthTimezone = location.timezone,
        !.city = location.city, !.country = location.country,
        !.latitude = location.latitude,
        !.longitude = location.longitude,
        !.timezone = location.timezone,
        !.source = location.source,
        !.sunLongitude = freshSunLongitude(calc.sunLongitude),
        !.zodiacSign = calc.zodiacSign,
        !.geneKey = calc.geneKeyNumber,
        !.shadow = geneKeysData[calc.geneKeyNumber].shadow,
        !.gift = geneKeysData[calc.geneKeyNumber].gift,
        !.siddhi = geneKeysData[calc.geneKeyNumber].siddhi,
        !.accuracy = "High precision (VSOP87)",
        !.utcDateTime = calc.utcDateTime]

\* lines 73-88: the computation of a result that is not in the cache
compute(host, q, location) ==
    LET utcDateTime == convertLocalToUTC(host, q.year, q.month, q.day,
                                         q.hours, q.minutes, location.timezone)
        sunLongitude == calculateSunLongitude(utcDateTime)
        geneKeyNumber == mapLongitudeToGeneKey(GENE_KEY_WHEEL, sunLongitude.u)
    IN  [undef |-> geneKeyNumber.undef,
         calc |-> [utcDateTime |-> utcDateTime, sunLongitude |-> sunLongitude,
                   geneKeyNumber |-> geneKeyNumber.val,
                   zodiacSign |-> getZodiacSign(sunLongitude)]]

\* place not asked for
missingParameter_placeOptional(q) == ~q.hasDate \/ ~q.hasTime

\* !date || !time || !place
missingParameter(q) == ~q.hasDate \/ ~q.hasTime \/ q.place = ""

\* the request arrives: parameters are checked and validated, then
\* geocodeLocation starts by querying geocoding_cache
Receive(r, q) ==
    /\ req[r].pc = "idle"
    /\ IF missingParameter(q)
       THEN req' = [req EXCEPT ![r].pc = "done", ![r].q = q,
                       ![r].resp = ErrorResponse(400, "Missing required parameters",
                           "Please provide date (YYYY-MM-DD), time (HH:mm), and place")]
       ELSE LET validation == validateDateTime(hostTz, q.year, q.month, q.day,
                                               q.hours, q.minutes)
            IN  IF ~validation.valid
                THEN req' = [req EXCEPT ![r].pc = "done", ![r].q = q,
                                ![r].resp = ErrorResponse(400, "Invalid date or time",
                                                          validation.error)]
                ELSE req' = [req EXCEPT ![r].pc = "geo_select", ![r].q = q]
    /\ UNCHANGED <<geocoding_cache, sun_calculations_cache, geneKeysData>>
    /\ UNCHANGED <<wheelVars, timeVars, sunVars, pageVars>>

\* geocodeLocation: the geocoding_cache query answers; on a miss the city
\* list is searched, exactly and then loosely
GeoSelect(r) ==
    /\ req[r].pc = "geo_select"
    /\ LET normalized == normalizedInput(req[r].q.place)
           cached == maybeSingle(geocoding_cache,
                         { row \in BagToSet(geocoding_cache) :
                               row.location_input = normalized })
       IN  IF cached.found
           THEN req' = [req EXCEPT ![r].pc = "calc_select",
                           ![r].location =
                               [city |-> TheRow(cached).city,
                                country |-> TheRow(cached).country,
                                latitude |-> TheRow(cached).latitude,
                                longitude |-> TheRow(cached).longitude,
                                timezone |-> TheRow(cached).timezone,
                                source |-> "cache"]]
           ELSE IF localMatch(normalized) # 0
           THEN req' = [req EXCEPT ![r].pc = "geo_insert",
                           ![r].location = cityLocation(localMatch(normalized), "local")]
           ELSE IF fuzzyMatch(normalized) # 0
           THEN req' = [req EXCEPT ![r].pc = "geo_insert",
                           ![r].location =
                               cityLocation(fuzzyMatch(normalized), "local-fuzzy")]
           ELSE req' = [req EXCEPT ![r].pc = "geocoder"]
    /\ UNCHANGED <<geocoding_cache, sun_calculations_cache, geneKeysData>>
    /\ UNCHANGED <<wheelVars, timeVars, sunVars, pageVars>>

\* geocodeLocation: the external geocoder answers with a place
GeocoderFound(r) ==
    /\ req[r].pc = "geocoder"
    /\ \E geo \in geocoderResults(req[r].q.place) :
          req' = [req EXCEPT ![r].pc = "geo_insert", ![r].location = geo]
    /\ UNCHANGED <<geocoding_cache, sun_calculations_cache, geneKeysData>>
    /\ UNCHANGED <<wheelVars, timeVars, sunVars, pageVars>>

\* geocodeLocation: the external geocoder fails or finds nothing; the error
\* thrown reaches the handler's catch
GeocoderFailed(r) ==
    /\ req[r].pc = "geocoder"
    /\ req' = [req EXCEPT ![r].pc = "done",
                  ![r].resp = ErrorResponse(500, "Internal server error",
                                            "Unable to find location")]
    /\ UNCHANGED <<geocoding_cache, sun_calculations_cache, geneKeysData>>
    /\ UNCHANGED <<wheelVars, timeVars, sunVars, pageVars>>

\* cacheGeocodingResult: the insert into geocoding_cache is done, or the
\* database refuses it, which the code ignores
GeoInsert(r, stored) ==
    /\ req[r].pc = "geo_insert"
    /\ geocoding_cache' =
          IF stored /\ BagCardinality(geocoding_cache) < MaxGeoRows
          THEN geocoding_cache (+)
                   SetToBag({geocodingRow(normalizedInput(req[r].q.place),
                                          req[r].location)})
          ELSE geocoding_cache
    /\ req' = [req EXCEPT ![r].pc = "calc_select"]
    /\ UNCHANGED <<sun_calculations_cache, geneKeysData>>
    /\ UNCHANGED <<wheelVars, timeVars, sunVars, pageVars>>

\* the sun_calculations_cache query answers: a hit is sent back at once, a
\* miss is computed
CalcSelect(r) ==
    /\ req[r].pc = "calc_select"
    /\ LET key == calcKey(req[r].q, req[r].location)
           cachedCalc == maybeSingle(sun_calculations_cache,
                             { row \in BagToSet(sun_calculations_cache) :
                                   rowKey(row) = key })
           result == compute(hostTz, req[r].q, req[r].location)
       IN  IF cachedCalc.found
           THEN IF TheRow(cachedCalc).gene_key \notin DOMAIN geneKeysData
                THEN req' = [req EXCEPT ![r].pc = "done",
                                ![r].resp = ErrorResponse(500, "Internal server error",
                                                "Cannot read properties of undefined")]
                ELSE req' = [req EXCEPT ![r].pc = "done",
                                ![r].resp = cachedResponse(req[r].q, req[r].location,
                                                           TheRow(cachedCalc))]
           ELSE IF result.undef
           THEN req' = [req EXCEPT ![r].pc = "done",
                           ![r].resp = ErrorResponse(500, "Internal server error",
                                                     "Cannot read properties of undefined")]
           ELSE IF result.calc.geneKeyNumber \notin DOMAIN geneKeysData
           THEN req' = [req EXCEPT ![r].pc = "done",
                           ![r].resp = ErrorResponse(500, "Gene Key data not found",
                                                     "No data found for Gene Key")]
           ELSE req' = [req EXCEPT ![r].pc = "calc_insert", ![r].calc = result.calc]
    /\ UNCHANGED <<geocoding_cache, sun_calculations_cache, geneKeysData>>
    /\ UNCHANGED <<wheelVars, timeVars, sunVars, pageVars>>

\* the insert into sun_calculations_cache is done, or the database refuses
\* it, and the fresh result is sent back
CalcInsert(r, stored) ==
    /\ req[r].pc = "calc_insert"
    /\ sun_calculations_cache' =
          IF stored /\ BagCardinality(sun_calculations_cache) < MaxCalcRows
          THEN sun_calculations_cache (+)
                   SetToBag({calcRow(req[r].q, req[r].location, req[r].calc)})
          ELSE sun_calculations_cache
    /\ req' = [req EXCEPT ![r].pc = "done",
                  ![r].resp = freshResponse(req[r].q, req[r].location, req[r].calc)]
    /\ UNCHANGED <<geocoding_cache, geneKeysData>>
    /\ UNCHANGED <<wheelVars, timeVars, sunVars, pageVars>>

\* the client has its answer; the server takes the next request
Forget(r) ==
    /\ req[r].pc = "done"
    /\ req' = [req EXCEPT ![r] = NoRequest]
    /\ UNCHANGED <<geocoding_cache, sun_calculations_cache, geneKeysData>>
    /\ UNCHANGED <<wheelVars, timeVars, sunVars, pageVars>>

\* the query strings clients send: real dates, a day that does not exist, an
\* hour out of range, a missing parameter
Queries ==
    { [hasDate |-> TRUE, hasTime |-> TRUE, year |-> d[1], month |-> d[2],
       day |-> d[3], hours |-> c[1], minutes |-> c[2], place |-> p] :
          d \in {<<2023, 1, 15>>}, c \in {<<12, 0>>},
          p \in Places }
    \cup { [hasDate |-> TRUE, hasTime |-> TRUE, year |-> 2023, month |-> 2,
            day |-> 30, hours |-> 12, minutes |-> 0, place |-> "Miami"],
           [hasDate |-> TRUE, hasTime |-> TRUE, year |-> 2023, month |-> 1,
            day |-> 15, hours |-> 24, minutes |-> 0, place |-> "Miami"],
           [hasDate |-> FALSE, hasTime |-> TRUE, year |-> NaN, month |-> NaN,
            day |-> NaN, hours |-> 12, minutes |-> 0, place |-> "Miami"],
           [hasDate |-> TRUE, hasTime |-> TRUE, year |-> 2023, month |-> 1,
            day |-> 15, hours |-> 12, minutes |-> 0, place |-> ""] }

ApiIdle ==
    /\ geocoding_cache = EmptyBag
    /\ sun_calculations_cache = EmptyBag
    /\ req = [r \in 1..MaxRequests |-> NoRequest]
    /\ geneKeysData = GeneKeysJson

Next ==
    \/ \E r \in 1..MaxRequests, q \in Queries : Receive(r, q)
    \/ \E r \in 1..MaxRequests : GeoSelect(r)
    \/ \E r \in 1..MaxRequests : GeocoderFound(r)
    \/ \E r \in 1..MaxRequests : GeocoderFailed(r)
    \/ \E r \in 1..MaxRequests, stored \in BOOLEAN : GeoInsert(r, stored)
    \/ \E r \in 1..MaxRequests : CalcSelect(r)
    \/ \E r \in 1..MaxRequests, stored \in BOOLEAN : CalcInsert(r, stored)
    \/ \E r \in 1..MaxRequests : Forget(r)

(***************************************************************************)
(* routes/api.js, the earlier version: GET /api/sunkey without geocoding,  *)
(* the date and time taken as UTC                                          *)
(***************************************************************************)
\* parseFloat(x.toFixed(2)) of a longitude
roundTo2(x) == Num(10000 * ((x.u + 5000) \div 10000), 0)

\* isNaN(birthDate.getTime()): Date.UTC of a NaN component is NaN
isNaNDate(q) == NaN \in {q.year, q.month, q.day, q.hours, q.minutes}

\* res.json(...) of the earlier handler
basicResponse(q, sunLongitude, geneKeyNumber) ==
    [NoResponse EXCEPT
        !.status = 200,
        !.date = <<q.year, q.month, q.day>>, !.time = <<q.hours, q.minutes>>,
        !.place = <<IF q.place = "" THEN "Not specified" ELSE q.place, "">>,
        !.sunLongitude = roundTo2(sunLongitude),
        !.zodiacSign = getZodiacSign(sunLongitude),
        !.geneKey = geneKeyNumber,
        !.shadow = geneKeysData[geneKeyNumber].shadow,
        !.gift = geneKeysData[geneKeyNumber].gift,
        !.siddhi = geneKeysData[geneKeyNumber].siddhi,
        !.utcDateTime = DateUTC(q.year, q.month - 1, q.day, q.hours, q.minutes)]

\* the whole handler: it awaits nothing
SunkeyBasic(r, q) ==
    /\ req[r].pc = "idle"
    /\ LET birthDate == DateUTC(q.year, q.month - 1, q.day, q.hours, q.minutes)
           sunLongitude == calculateSunLongitude(birthDate)
           geneKeyNumber == mapLongitudeToGeneKey(GENE_KEY_WHEEL, sunLongitude.u)
           resp ==
               IF ~q.hasDate \/ ~q.hasTime
               THEN ErrorResponse(400, "Missing required parameters",
                        "Please provide date (YYYY-MM-DD) and time (HH:mm)")
               ELSE IF isNaNDate(q)
               THEN ErrorResponse(400, "Invalid date or time",
                        "Please provide valid date and time values")
               ELSE IF geneKeyNumber.undef
               THEN ErrorResponse(500, "Internal server error",
                        "Cannot read properties of undefined")
               ELSE IF geneKeyNumber.val \notin DOMAIN geneKeysData
               THEN ErrorResponse(500, "Gene Key data not found",
                        "No data found for Gene Key")
               ELSE basicResponse(q, sunLongitude, geneKeyNumber.val)
       IN  req' = [req EXCEPT ![r].pc = "done", ![r].q = q, ![r].resp = resp]
    /\ UNCHANGED <<geocoding_cache, sun_calculations_cache, geneKeysData>>
    /\ UNCHANGED <<wheelVars, timeVars, sunVars, pageVars>>

\* further query strings: a month, a minute out of range, and a date that
\* is no date
BasicQueries ==
    Queries
    \cup { [hasDate |-> TRUE, hasTime |-> TRUE, year |-> 2023, month |-> 13,
            day |-> 1, hours |-> 12, minutes |-> 0, place |-> ""],
           [hasDate |-> TRUE, hasTime |-> TRUE, year |-> 2023, month |-> 1,
            day |-> 15, hours |-> 12, minutes |-> 60, place |-> "Miami"],
           [hasDate |-> TRUE, hasTime |-> TRUE, year |-> NaN, month |-> NaN,
            day |-> NaN, hours |-> 12, minutes |-> 0, place |-> "Miami"],
           [hasDate |-> TRUE, hasTime |-> FALSE, year |-> 2023, month |-> 1,
            day |-> 15, hours |-> NaN, minutes |-> NaN, place |-> "Miami"] }

NextBasic ==
    \/ \E r \in 1..MaxRequests, q \in BasicQueries : SunkeyBasic(r, q)
    \/ \E r \in 1..MaxRequests : Forget(r)

(***************************************************************************)
(* routes/api.js: GET /api/wheel, and a genekeys.json that lacks records   *)
(***************************************************************************)
\* a property an object does not have
Missing == <<"undefined", 0>>

\* { ...segment, ...geneKeysData[segment.geneKey.toString()] }: spreading
\* undefined adds no property
wheelEntry(segment) ==
    IF segment.geneKey \in DOMAIN geneKeysData
    THEN [geneKey |-> segment.geneKey, start |-> segment.start,
          end |-> segment.end, index |-> segment.index,
          shadow |-> geneKeysData[segment.geneKey].shadow,
          gift |-> geneKeysData[segment.geneKey].gift,
          siddhi |-> geneKeysData[segment.geneKey].siddhi]
    ELSE [geneKey |-> segment.geneKey, start |-> segment.start,
          end |-> segment.end, index |-> segment.index,
          shadow |-> Missing, gift |-> Missing, siddhi |-> Missing]

\* the whole /wheel handler: it awaits nothing and nothing in it throws
GetWheel(r) ==
    /\ req[r].pc = "idle"
    /\ LET wheelSegments == getAllGeneKeySegments(GENE_KEY_WHEEL)
           wheelData == [i \in DOMAIN wheelSegments |-> wheelEntry(wheelSegments[i])]
       IN  req' = [req EXCEPT ![r].pc = "done",
                               ![r].resp = [NoResponse EXCEPT !.status = 200,
                                                              !.segments = wheelData]]
    /\ UNCHANGED <<geocoding_cache, sun_calculations_cache, geneKeysData>>
    /\ UNCHANGED <<wheelVars, timeVars, sunVars, pageVars>>

\* the requests sent to a server whose reference data may be incomplete
DataQueries ==
    { q \in Queries : /\ q.hasDate /\ q.place = "Paris"
                      /\ <<q.month, q.day, q.hours>> = <<1, 15, 12>> }

\* genekeys.json in full, and with the record of one Gene Key lost: that of
\* the first segment of the wheel, or that of a segment the Sun is in on a
\* date of DataQueries
GeneKeyTables ==
    { [k \in (1..64) \ lost |-> GeneKeysJson[k]] :
          lost \in { {}, {WheelLiteral[1]},
                     { compute("UTC", q, cityLocation(3, "local")).calc.geneKeyNumber :
                           q \in DataQueries } } }

\* what sun_calculations_cache holds when the server starts: nothing, or the
\* row a run with the full genekeys.json left
StoredCalcRows ==
    { EmptyBag }
    \cup { SetToBag({calcRow(q, cityLocation(3, "local"),
                             compute("UTC", q, cityLocation(3, "local")).calc)}) :
               q \in DataQueries }

NextData ==
    \/ \E r \in 1..MaxRequests : GetWheel(r)
    \/ \E r \in 1..MaxRequests, q \in DataQueries : Receive(r, q)
    \/ \E r \in 1..MaxRequests : GeoSelect(r)
    \/ \E r \in 1..MaxRequests, stored \in BOOLEAN : GeoInsert(r, stored)
    \/ \E r \in 1..MaxRequests : CalcSelect(r)
    \/ \E r \in 1..MaxRequests, stored \in BOOLEAN : CalcInsert(r, stored)
    \/ \E r \in 1..MaxRequests : Forget(r)

(***************************************************************************)
(* public/script.js: the city autocomplete of the page                     *)
(* Texts are sequences of one-character strings.                           *)
(***************************************************************************)
\* the characters of the city and country names of citiesData
Chars(s) ==
    CASE s = "New York" -> <<"N", "e", "w", " ", "Y", "o", "r", "k">>
      [] s = "Miami" -> <<"M", "i", "a", "m", "i">>
      [] s = "Paris" -> <<"P", "a", "r", "i", "s">>
      [] s = "USA" -> <<"U", "S", "A">>
      [] s = "France" -> <<"F", "r", "a", "n", "c", "e">>

lowerOf(c) ==
    CASE c = "A" -> "a" [] c = "F" -> "f" [] c = "M" -> "m" [] c = "N" -> "n"
      [] c = "P" -> "p" [] c = "S" -> "s" [] c = "U" -> "u" [] c = "Y" -> "y"
      [] OTHER -> c

toLowerCase(text) == [i \in 1..Len(text) |-> lowerOf(text[i])]

\* String.prototype.includes
includes(text, part) ==
    \E i \in 0..(Len(text) - Len(part)) : SubSeq(text, i + 1, i + Len(part)) = part

\* Array.prototype.slice(0, limit)
slice(array, limit) ==
    SubSeq(array, 1, IF limit < Len(array) THEN limit ELSE Len(array))

cityMatches(city, normalizedQuery) ==
    \/ includes(toLowerCase(Chars(city.city)), normalizedQuery)
    \/ includes(toLowerCase(Chars(city.country)), normalizedQuery)

searchResult(city) ==
    [label |-> Chars(city.city) \o <<",", " ">> \o Chars(city.country),
     city |-> city.city, country |-> city.country]

searchCities(q, limit) ==
    LET Matches(city) == cityMatches(city, toLowerCase(q))
        matches == slice(SelectSeq(citiesData, Matches), limit)
    IN  [i \in 1..Len(matches) |-> searchResult(matches[i])]

\* what the user leaves in the input by typing, deleting or pasting
InputTexts ==
    { <<>>, <<"P">>, <<"P", "a">>, <<"u", "s">>, <<"z", "z">> }

\* citySearchTimeout before the first setTimeout, and after its timer ran
NoTimeout == [pending |-> FALSE, query |-> <<>>]

\* #city-suggestions as the page loads: not active, no items; the field
\* query records the query whose response built the items
NoSuggestions == [active |-> FALSE, items |-> <<>>, query |-> <<>>]

classListRemoveActive(element) == [element EXCEPT !.active = FALSE]

\* an input event on #birth-place: handleCityInput up to its setTimeout
HandleCityInput(text) ==
    /\ text # birthPlaceInput
    /\ birthPlaceInput' = text
    /\ query' = text
    /\ IF Len(text) < 2
       THEN /\ citySuggestions' = classListRemoveActive(citySuggestions)
            /\ UNCHANGED citySearchTimeout
       ELSE /\ citySearchTimeout' = [pending |-> TRUE, query |-> text]
            /\ UNCHANGED citySuggestions
    /\ UNCHANGED <<searches, blurTimers>>
    /\ UNCHANGED <<wheelVars, timeVars, apiVars, sunVars>>

\* 300 ms after the setTimeout: the callback starts its fetch
SearchTimeout ==
    /\ citySearchTimeout.pending
    /\ BagCardinality(searches) < MaxSearches
    /\ searches' = searches (+) SetToBag({citySearchTimeout.query})
    /\ citySearchTimeout' = NoTimeout
    /\ UNCHANGED <<birthPlaceInput, query, citySuggestions, blurTimers>>
    /\ UNCHANGED <<wheelVars, timeVars, apiVars, sunVars>>

\* a fetch of the callback settles: the rest of the callback
SearchSettled(q, ok) ==
    /\ BagIn(q, searches)
    /\ searches' = searches (-) SetToBag({q})
    /\ IF ok
       THEN LET cities == searchCities(q, 10)
            IN  citySuggestions' =
                    [active |-> Len(cities) > 0,
                     items |-> [i \in 1..Len(cities) |-> cities[i].label],
                     query |-> q]
       ELSE citySuggestions' = classListRemoveActive(citySuggestions)
    /\ UNCHANGED <<birthPlaceInput, query, citySearchTimeout, blurTimers>>
    /\ UNCHANGED <<wheelVars, timeVars, apiVars, sunVars>>

\* a click on the i-th suggestion
ClickSuggestion(i) ==
    /\ citySuggestions.active
    /\ i \in 1..Len(citySuggestions.items)
    /\ birthPlaceInput' = citySuggestions.items[i]
    /\ citySuggestions' = classListRemoveActive(citySuggestions)
    /\ UNCHANGED <<query, citySearchTimeout, searches, blurTimers>>
    /\ UNCHANGED <<wheelVars, timeVars, apiVars, sunVars>>

\* the input loses the focus
Blur ==
    /\ blurTimers < MaxBlurTimers
    /\ blurTimers' = blurTimers + 1
    /\ UNCHANGED <<birthPlaceInput, query, citySearchTimeout, searches,
                   citySuggestions>>
    /\ UNCHANGED <<wheelVars, timeVars, apiVars, sunVars>>

\* 200 ms after a blur
BlurTimeout ==
    /\ blurTimers > 0
    /\ blurTimers' = blurTimers - 1
    /\ citySuggestions' = classListRemoveActive(citySuggestions)
    /\ UNCHANGED <<birthPlaceInput, query, citySearchTimeout, searches>>
    /\ UNCHANGED <<wheelVars, timeVars, apiVars, sunVars>>

PageIdle ==
    /\ birthPlaceInput = <<>>
    /\ query = <<>>
    /\ citySearchTimeout = NoTimeout
    /\ searches = EmptyBag
    /\ citySuggestions = NoSuggestions
    /\ blurTimers = 0

NextPage ==
    \/ \E text \in InputTexts : HandleCityInput(text)
    \/ SearchTimeout
    \/ \E q \in InputTexts, ok \in BOOLEAN : SearchSettled(q, ok)
    \/ \E i \in 1..Len(citiesData) : ClickSuggestion(i)
    \/ Blur
    \/ BlurTimeout

(***************************************************************************)
(* Specifications                                                          *)
(***************************************************************************)
InitWheel == WheelIdle /\ TimeIdle /\ ApiIdle /\ SunIdle /\ PageIdle

\* mapToGeneKey.js called in any order by any caller
SpecWheel == InitWheel /\ [][NextWheel]_vars

InitTimezone == WheelIdle /\ InitTime /\ ApiIdle /\ SunIdle /\ PageIdle

\* timezone.js called on arguments drawn at the start
SpecTime == InitTimezone /\ [][NextTime]_vars

InitSuncalc == WheelIdle /\ TimeIdle /\ ApiIdle /\ InitSun /\ PageIdle

\* suncalc.js called on a Date and a library answer drawn at the start
SpecSun == InitSuncalc /\ [][NextSun]_vars

InitBasic == WheelIdle /\ TimeIdle /\ ApiIdle /\ SunIdle /\ PageIdle

\* the server of the earlier routes/api.js
SpecBasic == InitBasic /\ [][NextBasic]_vars

InitData ==
    /\ WheelIdle /\ TimeIdle /\ SunIdle /\ PageIdle
    /\ geocoding_cache = EmptyBag
    /\ sun_calculations_cache \in StoredCalcRows
    /\ req = [r \in 1..MaxRequests |-> NoRequest]
    /\ geneKeysData \in GeneKeyTables

\* the server started with a genekeys.json that may lack a record, on a
\* database an earlier run may have written to
SpecData == InitData /\ [][NextData]_vars

\* the server runs in UTC
Init ==
    /\ WheelIdle
    /\ hostTz = "UTC"
    /\ targ = [year |-> 2023, month |-> 1, day |-> 15, hours |-> 12,
               minutes |-> 0, timezone |-> "UTC"]
    /\ tres = NoResult
    /\ tprev = NoPrev
    /\ ApiIdle
    /\ SunIdle
    /\ PageIdle

\* the server: /api/sunkey requests served concurrently
Spec == Init /\ [][Next]_vars

InitPage == WheelIdle /\ TimeIdle /\ ApiIdle /\ SunIdle /\ PageIdle

\* the page: input, blur and click events, timers and search responses in
\* any order
SpecPage == InitPage /\ [][NextPage]_vars

(***************************************************************************)
(* Claims about mapToGeneKey.js, checked under SpecWheel                   *)
(***************************************************************************)
IsMapCall == wcall.fn = "mapLongitudeToGeneKey"
IsRangeCall == wcall.fn = "getGeneKeyDegreeRange"
IsSegmentsCall == wcall.fn = "getAllGeneKeySegments"

\* C1: for every longitude in [0,360), mapLongitudeToGeneKey returns a Gene
\* Key k and the range getGeneKeyDegreeRange(k) returns (its start and end as
\* formatted to two decimals) contains the longitude: start <= longitude < end.
C1_RangeContainsLongitude ==
    (IsMapCall /\ wcall.arg >= 0 /\ wcall.arg < 360 * Deg) =>
        /\ ~wcall.undef
        /\ LET r == getGeneKeyDegreeRange(GENE_KEY_WHEEL, wcall.key)
           IN  /\ ~r.threw
               /\ NumberOfFixed2(r.start) <= wcall.arg
               /\ wcall.arg < NumberOfFixed2(r.end)

\* C3: getAllGeneKeySegments() returns 64 segments in index order 0..63, the
\* first starting at 0, the last ending at 360, each ending where the next
\* starts, each exactly 5.625 wide.
C3_SegmentsPartition ==
    IsSegmentsCall =>
        /\ Len(segments) = 64
        /\ \A i \in 1..Len(segments) :
              /\ segments[i].index = i - 1
              /\ segments[i].end - segments[i].start = 5625000
        /\ segments[1].start = 0
        /\ segments[Len(segments)].end = 360 * Deg
        /\ \A i \in 1..(Len(segments) - 1) :
              segments[i].end = segments[i + 1].start

C3_Witness ==
    /\ IsSegmentsCall
    /\ Len(segments) = 64
    /\ segments[2].start = 5625000

\* C4: GENE_KEY_WHEEL holds every number 1..64 exactly once in its 64
\* entries, and is the array the module was loaded with after any calls and
\* any writes of a caller to what getAllGeneKeySegments returned.
C4_WheelFixedPermutation ==
    /\ Len(GENE_KEY_WHEEL) = 64
    /\ { GENE_KEY_WHEEL[i] : i \in 1..Len(GENE_KEY_WHEEL) } = 1..64
    /\ GENE_KEY_WHEEL = WheelLiteral

C4_Witness ==
    /\ wcall.fn = "callerWrite"
    /\ held # "none"
    /\ Len(segments) < 64
    /\ segments[1].geneKey # 13

\* C8: for every longitude, negative or beyond 360 included,
\* mapLongitudeToGeneKey returns GENE_KEY_WHEEL[floor(n / 5.625)] with n the
\* longitude reduced modulo 360 into [0,360); the index is in 0..63, never 64;
\* 0.0 gives index 0 and Gene Key 13, 359.99 gives index 63 and Gene Key 19.
C8_MapIsWheelAtFloor ==
    IsMapCall =>
        LET n == wcall.arg % (360 * Deg)
            idx == n \div segmentSize
        IN  /\ segmentIndex(wcall.arg) \in 0..63
            /\ segmentIndex(wcall.arg) = idx
            /\ ~wcall.undef
            /\ wcall.key = WheelLiteral[idx + 1]
            /\ (wcall.arg = 0 => idx = 0 /\ wcall.key = 13)
            /\ (wcall.arg = 359990000 => idx = 63 /\ wcall.key = 19)

\* C9: getGeneKeyDegreeRange fails with an error for every number outside
\* 1..64 and returns a range for every number in 1..64.
C9_RangeThrowsOutside ==
    IsRangeCall => (wcall.threw <=> wcall.arg \notin 1..64)

C9_Witness ==
    /\ IsRangeCall
    /\ wcall.arg = 65
    /\ wcall.threw

(***************************************************************************)
(* Claims about timezone.js, checked under SpecTime                        *)
(***************************************************************************)
IsConvertCall == tres.fn = "convertLocalToUTC"
IsValidateCall == tres.fn = "validateDateTime"

\* the requested wall clock reading, as a minute count
WallClock(a) == DateUTC(a.year, a.month - 1, a.day, a.hours, a.minutes)

\* the instants at which the zone's wall clock shows the reading w
InstantsOf(zone, w) ==
    { t \in {w - ZoneTable[zone].std, w - ZoneTable[zone].dst} :
        LocalTime(zone, t) = w }

HasDst(zone) == ZoneTable[zone].dst # ZoneTable[zone].std

\* the whole civil day, and the days next to it, are in daylight time
IsSummerDate(zone, y, m, d) ==
    /\ DstStart(zone, y) <= DateUTC(y, m - 1, d - 1, 0, 0)
    /\ DateUTC(y, m - 1, d + 2, 0, 0) <= DstEnd(zone, y)

\* the whole civil day, and the days next to it, are in standard time
IsWinterDate(zone, y, m, d) ==
    \/ DateUTC(y, m - 1, d + 2, 0, 0) <= DstStart(zone, y)
    \/ DstEnd(zone, y) <= DateUTC(y, m - 1, d - 1, 0, 0)

\* C2: for a wall clock reading that occurs exactly once in the zone,
\* convertLocalToUTC returns the instant whose wall clock in the zone is the
\* requested date and time, i.e. the reading minus the zone's offset then in
\* force.
C2_ConvertGivesInstantOfWallClock ==
    (IsConvertCall /\ Cardinality(InstantsOf(targ.timezone, WallClock(targ))) = 1) =>
        /\ LocalTime(targ.timezone, tres.utc) = WallClock(targ)
        /\ tres.utc = WallClock(targ) - Offset(targ.timezone, tres.utc)

\* C7: validateDateTime rejects a day the month does not have with 'Invalid
\* day for the given month', rejects a month outside 1..12, a day outside
\* 1..31, an hour outside 0..23 and a minute outside 0..59, and accepts every
\* real calendar date with an hour in 0..23 and a minute in 0..59.
C7_ValidateRejectsImpossibleDates ==
    (/\ IsValidateCall
     /\ NaN \notin {targ.year, targ.month, targ.day, targ.hours, targ.minutes}
     /\ targ.year >= 1) =>
        LET inRange == /\ targ.month \in 1..12
                       /\ targ.day \in 1..31
                       /\ targ.hours \in 0..23
                       /\ targ.minutes \in 0..59
            dayExists == targ.day <= DaysInMonth(targ.year, targ.month - 1)
        IN  /\ ~inRange => ~tres.valid
            /\ (inRange /\ ~dayExists) =>
                  /\ ~tres.valid
                  /\ tres.error = "Invalid day for the given month"
            /\ (inRange /\ dayExists) => tres.valid

C7_Witness ==
    /\ IsValidateCall
    /\ targ.year = 2023 /\ targ.month = 2 /\ targ.day = 30
    /\ targ.hours = 0 /\ targ.minutes = 0
    /\ ~tres.valid
    /\ tres.error = "Invalid day for the given month"

\* C10: in a zone with daylight saving, a summer date and a winter date with
\* the same wall clock time convert to instants whose UTC times of day differ
\* by exactly the zone's daylight saving shift, the summer one being the
\* earlier.
C10_SummerEarlierByDstDelta ==
    (/\ IsConvertCall
     /\ tprev.called
     /\ HasDst(targ.timezone)
     /\ IsSummerDate(targ.timezone, tprev.year, tprev.month, tprev.day)
     /\ IsWinterDate(targ.timezone, targ.year, targ.month, targ.day)) =>
        (TimeWithinDay(tres.utc) - TimeWithinDay(tprev.utc)) % MinutesPerDay
            = ZoneTable[targ.timezone].dst - ZoneTable[targ.timezone].std

\* the reading never occurs (spring forward) or occurs twice (fall back)
IsGapOrOverlap(zone, w) == Cardinality(InstantsOf(zone, w)) # 1

\* C11: a wall clock reading that does not exist or occurs twice in the
\* target zone is accepted by validateDateTime, and convertLocalToUTC returns
\* for it the reading minus one of the two offsets the zone has around the
\* transition.
C11_GapOrOverlapResolved ==
    (/\ targ \in ConvertArgs
     /\ IsGapOrOverlap(targ.timezone, WallClock(targ))) =>
        /\ IsValidateCall => tres.valid
        /\ IsConvertCall =>
              tres.utc \in { WallClock(targ) - ZoneTable[targ.timezone].std,
                             WallClock(targ) - ZoneTable[targ.timezone].dst }

\* C15: validateDateTime gives each failure class its own reason: a month
\* outside 1..12, 0 included, the month reason; a day outside 1..31, 0
\* included, the day reason; an hour outside 0..23 the hour reason; a minute
\* outside 0..59 the minute reason.
C15_ReasonPerFailureClass ==
    (/\ IsValidateCall
     /\ NaN \notin {targ.year, targ.month, targ.day, targ.hours, targ.minutes}
     /\ targ.year >= 1) =>
        IF targ.month \notin 1..12
        THEN ~tres.valid /\ tres.error = "Month must be between 1 and 12"
        ELSE IF targ.day \notin 1..31
        THEN ~tres.valid /\ tres.error = "Day must be between 1 and 31"
        ELSE IF targ.hours \notin 0..23
        THEN ~tres.valid /\ tres.error = "Hour must be between 0 and 23"
        ELSE IF targ.minutes \notin 0..59
        THEN ~tres.valid /\ tres.error = "Minute must be between 0 and 59"
        ELSE TRUE

\* C18: the instant convertLocalToUTC returns for a date, a time and a zone
\* is the same in a process of any local time zone.
C18_ConvertHostIndependent ==
    IsConvertCall =>
        \A host \in HostZones :
            convertLocalToUTC(host, targ.year, targ.month, targ.day,
                              targ.hours, targ.minutes, targ.timezone) = tres.utc

(***************************************************************************)
(* Claims about suncalc.js, checked under SpecSun                          *)
(***************************************************************************)
IsSunCall == sres.fn \in {"calculateSunLongitude", "calculateSunLongitude_low"}
IsZodiacCall == sres.fn = "getZodiacSign"

InCircle(longitude) == 0 <= longitude.u /\ longitude.u < 360 * Deg

\* C13: calculateSunLongitude, in the library-based version and in the
\* earlier one, returns a longitude in [0, 360) whatever longitude the
\* underlying model produces, negative or 360 and above.
C13_SunLongitudeInCircle ==
    IsSunCall => InCircle(sres.longitude)

\* C14: for every longitude calculateSunLongitude hands on, getZodiacSign
\* returns one of the 12 sign names, the one at index floor(longitude / 30)
\* of the list that starts with Aries, and never undefined.
C14_ZodiacSignOfThirty ==
    IsZodiacCall =>
        /\ sres.sign \in { signs[i] : i \in 1..Len(signs) }
        /\ sres.sign = signs[(sres.longitude.u \div (30 * Deg)) + 1]

\* C19: the earlier calculateSunLongitude gives, for one instant, the same
\* Julian day and the same longitude in a process of any local time zone.
C19_LowPrecisionHostIndependent ==
    (sres.fn = "calculateSunLongitude_low") =>
        \A host \in HostZones :
            /\ getJulianDayNumber(host, sarg.date) = sres.jd
            /\ calculateSunLongitude_low(host, sarg.date) = sres.longitude

(***************************************************************************)
(* Claims about GET /api/sunkey, checked under Spec                        *)
(***************************************************************************)
\* the query names a date the calendar does not have or a time the clock
\* does not show
IsImpossible(q) ==
    /\ q.hasDate /\ q.hasTime /\ ~isNaNDate(q)
    /\ \/ q.month \notin 1..12
       \/ q.day < 1
       \/ (q.month \in 1..12 /\ q.day > DaysInMonth(q.year, q.month - 1))
       \/ q.hours \notin 0..23
       \/ q.minutes \notin 0..59

\* C12: a request whose date or time is impossible (2023-02-30, hour 24,
\* minute 60, month 13) gets an error response with a reason, never a Gene
\* Key computed from a rolled-over date.
C12_ImpossibleDateRejected ==
    \A r \in 1..MaxRequests :
        (req[r].pc = "done" /\ IsImpossible(req[r].q)) =>
            /\ req[r].resp.status # 200
            /\ req[r].resp.error # ""
            /\ req[r].resp.geneKey = 0

\* C16: a success response never lacks shadow, gift or siddhi: not for the
\* Gene Key of /api/sunkey, computed or cached, and not for a segment of
\* /api/wheel; a number without a record in genekeys.json gives an error.
C16_NoSuccessWithoutRecord ==
    \A r \in 1..MaxRequests :
        (req[r].pc = "done" /\ req[r].resp.status = 200) =>
            /\ req[r].resp.geneKey # 0 =>
                  /\ req[r].resp.geneKey \in DOMAIN geneKeysData
                  /\ Missing \notin {req[r].resp.shadow, req[r].resp.gift,
                                     req[r].resp.siddhi}
            /\ \A i \in DOMAIN req[r].resp.segments :
                  Missing \notin {req[r].resp.segments[i].shadow,
                                  req[r].resp.segments[i].gift,
                                  req[r].resp.segments[i].siddhi}

Answered(r) == req[r].pc = "done" /\ req[r].resp.status = 200

\* C5: two /api/sunkey calls with identical date, time and place get
\* identical responses, field by field, whatever the first call left in
\* the caches.
C5_SameQuerySameResponse ==
    \A r1, r2 \in 1..MaxRequests :
        (Answered(r1) /\ Answered(r2) /\ req[r1].q = req[r2].q) =>
            req[r1].resp = req[r2].resp

\* C6: two locations with the same timezone identifier, resolved for the
\* same date and time, get the same sunLongitude, zodiacSign and geneKey,
\* though they differ in city, country, coordinates or source.
C6_SameTimezoneSameResult ==
    \A r1, r2 \in 1..MaxRequests :
        (/\ Answered(r1) /\ Answered(r2)
         /\ req[r1].resp.date = req[r2].resp.date
         /\ req[r1].resp.time = req[r2].resp.time
         /\ req[r1].resp.timezone = req[r2].resp.timezone
         /\ req[r1].resp.city # req[r2].resp.city) =>
            /\ req[r1].resp.sunLongitude = req[r2].resp.sunLongitude
            /\ req[r1].resp.zodiacSign = req[r2].resp.zodiacSign
            /\ req[r1].resp.geneKey = req[r2].resp.geneKey

\* the handler answers the query with 400: a parameter is missing or
\* validateDateTime fails
IsRejected(q) ==
    \/ ~q.hasDate \/ ~q.hasTime \/ q.place = ""
    \/ ~validateDateTime(hostTz, q.year, q.month, q.day, q.hours, q.minutes).valid

\* C17: a request that misses a parameter or fails validateDateTime is
\* answered with status 400 in the step that receives it: no geocoding is
\* started, geocoding_cache and sun_calculations_cache stay as they are and
\* the response has no computed field.
C17_RejectedBeforeAnyAccess ==
    [][\A r \in 1..MaxRequests :
          (req[r].pc = "idle" /\ req'[r].pc # "idle" /\ IsRejected(req'[r].q)) =>
              /\ req'[r].pc = "done"
              /\ req'[r].resp.status = 400
              /\ req'[r].resp.error # ""
              /\ req'[r].location = NoLocation
              /\ req'[r].resp.geneKey = 0
              /\ req'[r].resp.sunLongitude = Num(0, 0)
              /\ req'[r].resp.zodiacSign = ""
              /\ req'[r].resp.utcDateTime = 0
              /\ geocoding_cache' = geocoding_cache
              /\ sun_calculations_cache' = sun_calculations_cache]_vars

C17_Witness ==
    /\ sun_calculations_cache # EmptyBag
    /\ geocoding_cache # EmptyBag
    /\ \E r \in 1..MaxRequests :
          /\ req[r].pc = "done"
          /\ req[r].q.day = 30 /\ req[r].q.month = 2
          /\ req[r].resp.status = 400
          /\ req[r].resp.message = "Invalid day for the given month"

IsCachedAnswer(r) ==
    Answered(r) /\ req[r].resp.accuracy = "High precision (VSOP87, cached)"

C21_OneRowPerKey ==
    \A row \in BagToSet(sun_calculations_cache) :
        /\ CopiesIn(row, sun_calculations_cache) = 1
        /\ \A other \in BagToSet(sun_calculations_cache) :
              rowKey(other) = rowKey(row) => other = row

(***************************************************************************)
(* Claims about the page, checked under SpecPage                           *)
(***************************************************************************)
\* C22: the suggestion list is only active for the latest input: never
\* while the latest input has fewer than 2 characters, and never with the
\* suggestions of an earlier query.
C22_SuggestionsForLatestInput ==
    citySuggestions.active =>
        /\ Len(query) >= 2
        /\ citySuggestions.query = query

====
